---- MODULE Spec2Model ----
(***************************************************************************)
(* SpreadNet (src/app.py): the SolanaMonitor poll / compute / broadcast    *)
(* loop, its bounded opportunity history, its statistics, and the pull and *)
(* push read paths of the web front end.                                   *)
(*                                                                         *)
(* Python floats are IEEE-754 binary64 values.  They are modelled exactly: *)
(* a float is a sign, a 53-bit mantissa and a binary exponent, and every   *)
(* operation is the exact operation followed by round-to-nearest-even.     *)
(* Python ints are unbounded; they and the mantissas are little-endian     *)
(* sequences of limbs, because TLC's integers are 32 bits wide.             *)
(***************************************************************************)
EXTENDS Integers, Sequences, FiniteSets, TLC

(***************************************************************************)
(* Unbounded naturals: little-endian limb sequences, no leading zero limb. *)
(***************************************************************************)
LimbBits == 7 + 7
Base == 2^LimbBits

Pow2(k) == 2^k

\* a without its leading zero limbs
RECURSIVE BNorm(_)
BNorm(a) ==
    IF a = <<>> THEN <<>>
    ELSE IF a[Len(a)] = 0 THEN BNorm(SubSeq(a, 1, Len(a) - 1))
    ELSE a

RECURSIVE BFromInt(_)
BFromInt(n) == IF n = 0 THEN <<>> ELSE <<n % Base>> \o BFromInt(n \div Base)

\* v, once the tuple first has a value.  TLC evaluates an expression when its
\* value is first needed, inside whatever needs it; naming the intermediate
\* results in first, in the order they depend on one another, has each of them
\* evaluated before the next instead of inside it.
Then(first, v) == IF Len(first) >= 0 THEN v ELSE v

\* a + b + c for a carry c
RECURSIVE BAddC(_, _, _)
BAddC(a, b, c) ==
    IF a = <<>> /\ b = <<>> THEN (IF c = 0 THEN <<>> ELSE <<c>>)
    ELSE LET x == IF a = <<>> THEN 0 ELSE Head(a)
             y == IF b = <<>> THEN 0 ELSE Head(b)
             s == x + y + c
         IN  <<s % Base>> \o BAddC(IF a = <<>> THEN <<>> ELSE Tail(a),
                                   IF b = <<>> THEN <<>> ELSE Tail(b),
                                   s \div Base)

BAdd(a, b) == BAddC(a, b, 0)

\* a - b - c for a >= b + c and a borrow c, not normalised
RECURSIVE BSubC(_, _, _)
BSubC(a, b, c) ==
    IF a = <<>> THEN <<>>
    ELSE LET y == IF b = <<>> THEN 0 ELSE Head(b)
             d == Head(a) - y - c
         IN  <<IF d < 0 THEN d + Base ELSE d>>
             \o BSubC(Tail(a), IF b = <<>> THEN <<>> ELSE Tail(b),
                      IF d < 0 THEN 1 ELSE 0)

\* a - b for a >= b
BSub(a, b) == LET d == BSubC(a, b, 0) IN Then(<<d>>, BNorm(d))

\* -1, 0, 1 as a < b, a = b, a > b, for a and b of the same length, from limb i down
RECURSIVE BCmpFrom(_, _, _)
BCmpFrom(a, b, i) ==
    IF i = 0 THEN 0
    ELSE IF a[i] < b[i] THEN -1
    ELSE IF a[i] > b[i] THEN 1
    ELSE BCmpFrom(a, b, i - 1)

\* -1, 0, 1 as a < b, a = b, a > b
BCmp(a, b) ==
    IF Len(a) < Len(b) THEN -1
    ELSE IF Len(a) > Len(b) THEN 1
    ELSE BCmpFrom(a, b, Len(a))

RECURSIVE BMulSmallC(_, _, _)
BMulSmallC(a, s, c) ==
    IF a = <<>> THEN (IF c = 0 THEN <<>> ELSE <<c>>)
    ELSE LET p == Head(a) * s + c
         IN  <<p % Base>> \o BMulSmallC(Tail(a), s, p \div Base)

BMulSmall(a, s) == IF s = 0 THEN <<>> ELSE BMulSmallC(a, s, 0)

\* the number of bits of n < Base
SmallBits(n) == CHOOSE w \in 0..LimbBits : n < 2^w /\ (w = 0 \/ n >= 2^(w - 1))

BitLen(a) == IF a = <<>> THEN 0 ELSE (Len(a) - 1) * LimbBits + SmallBits(a[Len(a)])

BZeros(q) == [i \in 1..q |-> 0]

\* a * 2^k
BShl(a, k) ==
    IF a = <<>> THEN <<>>
    ELSE BZeros(k \div LimbBits) \o BMulSmall(a, Pow2(k % LimbBits))

\* floor(a / s) for a small s, from the top limb down; r is the running remainder
RECURSIVE BDivSmallR(_, _, _)
BDivSmallR(a, s, r) ==
    IF a = <<>> THEN <<>>
    ELSE LET cur == r * Base + a[Len(a)]
         IN  BDivSmallR(SubSeq(a, 1, Len(a) - 1), s, cur % s) \o <<cur \div s>>

\* floor(a / 2^k)
BShr(a, k) ==
    LET q == k \div LimbBits
        low == BDivSmallR(SubSeq(a, q + 1, Len(a)), Pow2(k % LimbBits), 0)
    IN  IF q >= Len(a) THEN <<>> ELSE Then(<<low>>, BNorm(low))

BBit(a, i) ==
    LET q == i \div LimbBits
    IN  IF q >= Len(a) THEN 0 ELSE (a[q + 1] \div Pow2(i % LimbBits)) % 2

BIsOdd(a) == a /= <<>> /\ a[1] % 2 = 1

\* The operators below that use one another are the cases of one recursive
\* operator, Compute, defined after update_stats: the operator named here
\* hands its arguments to the case of its name, which is its body.
RECURSIVE Compute(_, _)

BMul(a, b) == Compute("BMul", << a, b >>)

\* The quotient digit of r1 / b: qhat lowered until qhat * b <= r1
BFixDigit(r1, b, qhat) == Compute("BFixDigit", << r1, b, qhat >>)

\* Long division by limbs, from limb i of a down: q the quotient digits so far,
\* r the running remainder (r < b).  b's top limb is at least Base / 2, so the
\* estimate from the top two limbs of the remainder is at most 2 too large.
\* (The Len tests are never true; they make TLC evaluate q and r at
\* each limb instead of building a chain of pending values.)
BDivLimbs(a, b, i, q, r) == Compute("BDivLimbs", << a, b, i, q, r >>)

\* <<floor(a / b), a mod b>> for b > 0
BDivMod(a, b) == Compute("BDivMod", << a, b >>)

(***************************************************************************)
(* binary64.  value = (-1)^neg * m * 2^e, with m = 0 or 2^52 <= m < 2^53.  *)
(* The values the program computes stay far from the subnormal and the     *)
(* overflow ranges, so the exponent is not clamped.                        *)
(***************************************************************************)
MantBits == 50 + 3

FZero == [neg |-> FALSE, m |-> <<>>, e |-> 0]

\* The float nearest to (m + sticky-bit) * 2^e, ties to even.  sticky says the
\* exact value lies strictly between m and m + 1.
RoundPack(neg, m, e, sticky) == Compute("RoundPack", << neg, m, e, sticky >>)

\* float(n) for a Python int n >= 0
FFromBig(n) == Compute("FFromBig", << n >>)

\* n / d for Python ints n >= 0, d > 0 (true division, correctly rounded); also
\* the value of a decimal literal n/d
FDivBig(n, d) == Compute("FDivBig", << n, d >>)

FNeg(a) == Compute("FNeg", << a >>)

FAbs(a) == Compute("FAbs", << a >>)

FMul(a, b) == Compute("FMul", << a, b >>)

\* a / b for b /= 0
FDiv(a, b) == Compute("FDiv", << a, b >>)

FAdd(a, b) == Compute("FAdd", << a, b >>)

FSub(a, b) == Compute("FSub", << a, b >>)

\* -1, 0, 1 as a < b, a = b, a > b
FCmpMag(a, b) == Compute("FCmpMag", << a, b >>)

FCmp(a, b) == Compute("FCmp", << a, b >>)

FGt(a, b) == Compute("FGt", << a, b >>)

\* int(a) for a >= 0: truncation toward zero
FTrunc(a) == Compute("FTrunc", << a >>)

\* int(a) with its sign: the digits of FTrunc, negative when a is negative
\* and the digits are not zero
IntOf(a) == Compute("IntOf", << a >>)


(***************************************************************************)
(* Program constants                                                       *)
(***************************************************************************)
\* time.time() values are counted in ticks; int(current_time) is a division
TicksPerSecond == 1 + 1
HistoryWindow == 50
TtlSeconds == 30
CycleSleep == 8
RecoverySleep == 5
StatsWindow == 100

Big(digits) == BFromInt(digits)
Billion == Big(1000000000)
Hundred == FFromBig(Big(100))
Sixty == FFromBig(Big(60))
Threshold == FDivBig(Big(5), Big(1000))

trading_pairs ==
    << [input_mint |-> "So11", output_mint |-> "EPjF", pair_name |-> "SOL/USDC"],
       [input_mint |-> "4k3D", output_mint |-> "EPjF", pair_name |-> "RAY/USDC"] >>

price_variations ==
    << FDivBig(Big(995), Big(1000)), FDivBig(Big(1005), Big(1000)),
       FDivBig(Big(998), Big(1000)), FDivBig(Big(1012), Big(1000)),
       FDivBig(Big(992), Big(1000)) >>

dex_names == << "Raydium", "Orca", "Phoenix", "Serum", "Aldrin" >>

(***************************************************************************)
(* What one quote request can bring back (get_jupiter_quote):              *)
(*   none    no quote: network error, non-200 status, a body that is not   *)
(*           JSON (all caught and turned into None), or a falsy body       *)
(*   no_out  a JSON object without "outAmount"                             *)
(*   bad     a JSON object with "outAmount" whose "inAmount" is missing or *)
(*           not a number: int(quote["inAmount"]) raises                   *)
(*   scalar  a truthy JSON value that is no container: the test            *)
(*           "outAmount" in quote raises TypeError                         *)
(*   quote   a JSON object with both amounts                               *)
(***************************************************************************)
Payload(kind, inAmount, outAmount) ==
    [kind |-> kind, inAmount |-> inAmount, outAmount |-> outAmount]

NoQuote == Payload("none", <<>>, <<>>)
NoOutAmount == Payload("no_out", <<>>, <<>>)
BadQuote == Payload("bad", <<>>, <<>>)
ScalarBody == Payload("scalar", <<>>, <<>>)
Quote(inAmount, outAmount) == Payload("quote", inAmount, outAmount)

\* line 231: quote and "outAmount" in quote
HasOutAmount(payload) == payload.kind \in {"bad", "quote"}

\* the exceptions of lines 231-243: TypeError, KeyError, ValueError,
\* ZeroDivisionError (in_amount = 0, or jupiter_price = 0.0 at line 243)
QuoteRaises(payload) ==
    \/ payload.kind \in {"bad", "scalar"}
    \/ payload.kind = "quote" /\ (payload.inAmount = <<>> \/ payload.outAmount = <<>>)

\* is_valid with <= for <
is_valid_inclusive(opp, current_time) ==
    (current_time - opp.timestamp) <= opp.ttl_seconds * TicksPerSecond

\* ArbitrageOpportunity.is_valid
is_valid(opp, current_time) ==
    (current_time - opp.timestamp) < opp.ttl_seconds * TicksPerSecond

\* line 243, left side: abs(simulated_price - jupiter_price) / jupiter_price
SignedDeviation(simulated_price, jupiter_price) ==
    FDiv(FSub(simulated_price, jupiter_price), jupiter_price)

Deviation(simulated_price, jupiter_price) ==
    Compute("Deviation", << simulated_price, jupiter_price >>)

\* line 243, the comparison: > 0.005
ReachesThreshold(deviation) == FCmp(deviation, Threshold) >= 0

ExceedsThreshold(deviation) == Compute("ExceedsThreshold", << deviation >>)

\* lines 241-252 and 264-266 for the multiplier at index i: the test of line
\* 243 (emit) and the sides, prices and profits of the opportunity
Synthesize(in_amount, jupiter_price, i) ==
    Compute("Synthesize", << in_amount, jupiter_price, i >>)

\* The quotes the environment can answer with
Q150 == Quote(Billion, BMulSmall(Billion, 150))
Q481 == Quote(Billion, Big(481))
QOne == Quote(Billion, Billion)
QuoteOutputs ==
    { Big(1), Big(7), Big(481), Big(98765432), Billion, BMulSmall(Billion, 2),
      BMulSmall(Billion, 23), BMulSmall(Billion, 145), BMulSmall(Billion, 149),
      BMulSmall(Billion, 150), BMulSmall(Billion, 160), BMulSmall(Billion, 481) }
GoodQuotes == { Quote(Billion, out) : out \in QuoteOutputs }

\* Synthesize for every quote of the model and every multiplier, worked out
\* once: float arithmetic on limbs is slow to evaluate
Synthesized ==
    [q \in GoodQuotes |->
        [i \in 1..Len(price_variations) |->
            Synthesize(q.inAmount, FDivBig(q.outAmount, q.inAmount), i)]]

\* lines 254-269 with the two prices exchanged
OpportunityWithPricesExchanged(pair, current_time, in_amount, c) ==
    [id |-> <<pair.pair_name, c.buy_dex, c.sell_dex, current_time \div TicksPerSecond>>,
     pair |-> pair.pair_name,
     input_mint |-> pair.input_mint,
     output_mint |-> pair.output_mint,
     amount |-> in_amount,
     buy_dex |-> c.buy_dex,
     sell_dex |-> c.sell_dex,
     buy_price |-> c.sell_price,
     sell_price |-> c.buy_price,
     profit_bps |-> c.profit_bps,
     profit_percentage |-> c.profit_percentage,
     profit_amount |-> c.profit_amount,
     timestamp |-> current_time,
     ttl_seconds |-> TtlSeconds]

\* lines 254-269 with the time of the id in tens of seconds
OpportunityByTenSeconds(pair, current_time, in_amount, c) ==
    [id |-> <<pair.pair_name, c.buy_dex, c.sell_dex,
              current_time \div (10 * TicksPerSecond)>>,
     pair |-> pair.pair_name,
     input_mint |-> pair.input_mint,
     output_mint |-> pair.output_mint,
     amount |-> in_amount,
     buy_dex |-> c.buy_dex,
     sell_dex |-> c.sell_dex,
     buy_price |-> c.buy_price,
     sell_price |-> c.sell_price,
     profit_bps |-> c.profit_bps,
     profit_percentage |-> c.profit_percentage,
     profit_amount |-> c.profit_amount,
     timestamp |-> current_time,
     ttl_seconds |-> TtlSeconds]

\* lines 254-269
Opportunity(pair, current_time, in_amount, c) ==
    [id |-> <<pair.pair_name, c.buy_dex, c.sell_dex, current_time \div TicksPerSecond>>,
     pair |-> pair.pair_name,
     input_mint |-> pair.input_mint,
     output_mint |-> pair.output_mint,
     amount |-> in_amount,
     buy_dex |-> c.buy_dex,
     sell_dex |-> c.sell_dex,
     buy_price |-> c.buy_price,
     sell_price |-> c.sell_price,
     profit_bps |-> c.profit_bps,
     profit_percentage |-> c.profit_percentage,
     profit_amount |-> c.profit_amount,
     timestamp |-> current_time,
     ttl_seconds |-> TtlSeconds]

\* the inner loop of lines 240-271, from multiplier i on
RECURSIVE PairOpportunities(_, _, _, _)
PairOpportunities(pair, quote, current_time, i) ==
    IF i > Len(price_variations) THEN <<>>
    ELSE LET c == Synthesized[quote][i]
         IN  (IF c.emit THEN <<Opportunity(pair, current_time, quote.inAmount, c)>>
              ELSE <<>>)
             \o PairOpportunities(pair, quote, current_time, i + 1)

\* lines 231-271 for one pair, the multipliers taken from the last to the first
DetectPairBackwards(pair, payload, current_time) ==
    IF ~HasOutAmount(payload) THEN <<>>
    ELSE LET forwards == PairOpportunities(pair, payload, current_time, 1)
         IN  [j \in 1..Len(forwards) |-> forwards[Len(forwards) + 1 - j]]

\* lines 231-271 for one pair, for a payload that raises nothing
DetectPair(pair, payload, current_time) ==
    IF ~HasOutAmount(payload) THEN <<>>
    ELSE PairOpportunities(pair, payload, current_time, 1)

(***************************************************************************)
(* update_stats                                                            *)
(***************************************************************************)
\* list[-n:]
Last(s, n) == IF Len(s) <= n THEN s ELSE SubSeq(s, Len(s) - n + 1, Len(s))

\* sum(all_profits): left-to-right float additions starting from the int 0;
\* opps[lo..hi] is added to acc in order, the first half before the second
FSum(opps, lo, hi, acc) == Compute("FSum", << opps, lo, hi, acc >>)

\* max(new_opportunities, key=profit_percentage): the first of the largest
\* among best and opps[lo..hi], visited in order
MaxByProfit(opps, lo, hi, best) == Compute("MaxByProfit", << opps, lo, hi, best >>)

best_opp(new_opportunities) == Compute("best_opp", << new_opportunities >>)

\* lines 302-305 with [-10:] for [-100:]
AverageOfLastTen(history) ==
    LET all_profits == Last(history, 10)
        total       == FSum(all_profits, 1, Len(all_profits), FZero)
        count       == FFromBig(Big(Len(all_profits)))
    IN  Then(<<total, count>>, FDiv(total, count))

\* lines 302-305
AverageProfit(history) == Compute("AverageProfit", << history >>)

\* lines 308-311 without the comparison of line 309
BestProfitOfBatch(st, new_opportunities) ==
    LET best == best_opp(new_opportunities)
    IN  [st EXCEPT !.best_profit = best.profit_percentage,
                   !.top_pair = best.pair]

\* lines 308-311
BestProfit(st, new_opportunities) ==
    Compute("BestProfit", << st, new_opportunities >>)

\* lines 298-311 with the length of the history for the count of line 299
WithBatchCountingHistory(st, history, new_opportunities, current_time) ==
    [Compute("WithBatch", << st, history, new_opportunities, current_time >>)
        EXCEPT !.total_opportunities = Len(history)]

\* lines 298-311
WithBatch(st, history, new_opportunities, current_time) ==
    Compute("WithBatch", << st, history, new_opportunities, current_time >>)

\* lines 314-318
WithUptime(st, started, current_time) ==
    Compute("WithUptime", << st, started, current_time >>)

\* update_stats with line 300 outside the test of line 298
update_stats_stamping(st, history, new_opportunities, started, current_time) ==
    [Compute("update_stats", << st, history, new_opportunities, started, current_time >>)
        EXCEPT !.last_opportunity_time = current_time]

\* update_stats
update_stats(st, history, new_opportunities, started, current_time) ==
    Compute("update_stats", << st, history, new_opportunities, started, current_time >>)

(***************************************************************************)
(* calculate_arbitrage and the counters of detect_arbitrage_cycle          *)
(* (spreadnet.py)                                                          *)
(***************************************************************************)
SixTenths == FDivBig(Big(6), Big(10))
min_profit_threshold == FDivBig(Big(1), Big(10))
SummaryEvery == 20

\* float(price)
PriceOf(thousandths) == FDivBig(Big(thousandths), Big(1000))

\* round(x, 2): the decimal with two places nearest to the exact value of x,
\* ties to even, then the float nearest to that decimal
FRound2(x) == Compute("FRound2", << x >>)

\* lines 115-137: one ordered pair of exchanges in calculate_arbitrage
Candidate(dex1, price1, dex2, price2) ==
    Compute("Candidate", << dex1, price1, dex2, price2 >>)

\* calculate_arbitrage: the exchanges in the order of the dict of line 171
calculate_arbitrage(prices) == Compute("calculate_arbitrage", << prices >>)

\* lines 182-188: the loop over the opportunities, from the j-th on
Counted(d, opps, j) == Compute("Counted", << d, opps, j >>)

(***************************************************************************)
(* The arithmetic and the pure functions of the program, one case each.   *)
(* The operators named above hand their arguments to Compute; each case   *)
(* is the body of the operator it is named after.                         *)
(***************************************************************************)
Compute(fn, args) ==
    CASE fn = "BMul" ->
           LET a == args[1]
               b == args[2]
           IN
               IF a = <<>> \/ b = <<>> THEN <<>>
               ELSE LET r == BMul(a, Tail(b))
                    IN  Then(<<r>>, BAdd(BMulSmall(a, Head(b)),
                                         IF r = <<>> THEN <<>> ELSE <<0>> \o r))
      [] fn = "BFixDigit" ->
           LET r1 == args[1]
               b == args[2]
               qhat == args[3]
           IN
               IF BCmp(BMulSmall(b, qhat), r1) > 0 THEN BFixDigit(r1, b, qhat - 1) ELSE qhat
      [] fn = "BDivLimbs" ->
           LET a == args[1]
               b == args[2]
               i == args[3]
               q == args[4]
               r == args[5]
           IN
               IF i = 0 \/ Len(q) < 0 \/ Len(r) < 0 THEN <<q, r>>
               ELSE LET r1   == BNorm(<<a[i]>> \o r)
                        n    == Len(b)
                        hi   == IF Len(r1) > n THEN r1[n + 1] ELSE 0
                        lo   == IF Len(r1) >= n THEN r1[n] ELSE 0
                        est  == (hi * Base + lo) \div b[n]
                        qd   == BFixDigit(r1, b, IF est > Base - 1 THEN Base - 1 ELSE est)
                        r2   == BSub(r1, BMulSmall(b, qd))
                    IN  Then(<<r1, qd, r2>>, BDivLimbs(a, b, i - 1, <<qd>> \o q, r2))
      [] fn = "RoundPack" ->
           LET neg == args[1]
               m == args[2]
               e == args[3]
               sticky == args[4]
           IN
               LET L == BitLen(m)
               IN  IF m = <<>> THEN FZero
                   ELSE IF L <= MantBits
                   THEN [neg |-> neg, m |-> BShl(m, MantBits - L), e |-> e - (MantBits - L)]
                   ELSE LET sh   == L - MantBits
                            top  == BShr(m, sh)
                            low  == BShl(top, sh)
                            rem  == BSub(m, low)
                            half == BShl(<<1>>, sh - 1)
                            c    == BCmp(rem, half)
                            up   == c > 0 \/ (c = 0 /\ (sticky \/ BIsOdd(top)))
                            t2   == IF up THEN BAdd(top, <<1>>) ELSE top
                        IN  Then(<<top, low, rem, half, t2>>,
                                 IF BitLen(t2) > MantBits
                                 THEN [neg |-> neg, m |-> BShr(t2, 1), e |-> e + sh + 1]
                                 ELSE [neg |-> neg, m |-> t2, e |-> e + sh])
      [] fn = "FSum" ->
           LET opps == args[1]
               lo == args[2]
               hi == args[3]
               acc == args[4]
           IN
               IF lo > hi THEN acc
               ELSE IF lo = hi THEN FAdd(acc, opps[lo].profit_percentage)
               ELSE LET mid  == (lo + hi) \div 2
                        left == FSum(opps, lo, mid, acc)
                    IN  Then(<<left>>, FSum(opps, mid + 1, hi, left))
      [] fn = "MaxByProfit" ->
           LET opps == args[1]
               lo == args[2]
               hi == args[3]
               best == args[4]
           IN
               IF lo > hi THEN best
               ELSE IF lo = hi
               THEN (IF FGt(opps[lo].profit_percentage, best.profit_percentage)
                     THEN opps[lo] ELSE best)
               ELSE LET mid  == (lo + hi) \div 2
                        left == MaxByProfit(opps, lo, mid, best)
                    IN  Then(<<left>>, MaxByProfit(opps, mid + 1, hi, left))
      [] fn = "BDivMod" ->
           LET a == args[1]
               b == args[2]
           IN
               LET s  == LimbBits - SmallBits(b[Len(b)])
                   an == BShl(a, s)
                   bn == BShl(b, s)
                   qr == BDivLimbs(an, bn, Len(an), <<>>, <<>>)
               IN  Then(<<an, bn, qr>>, <<BNorm(qr[1]), BShr(qr[2], s)>>)
      [] fn = "FFromBig" ->
           LET n == args[1]
           IN  RoundPack(FALSE, n, 0, FALSE)
      [] fn = "FDivBig" ->
           LET n == args[1]
               d == args[2]
           IN
               IF n = <<>> THEN FZero
               ELSE LET k  == LET w == MantBits + 2 + BitLen(d) - BitLen(n)
                              IN  IF w > 0 THEN w ELSE 0
                        nk == BShl(n, k)
                        qr == BDivMod(nk, d)
                    IN  Then(<<nk, qr>>, RoundPack(FALSE, qr[1], 0 - k, qr[2] /= <<>>))
      [] fn = "FNeg" ->
           LET a == args[1]
           IN  IF a.m = <<>> THEN a ELSE [a EXCEPT !.neg = ~a.neg]
      [] fn = "FAbs" ->
           LET a == args[1]
           IN  [a EXCEPT !.neg = FALSE]
      [] fn = "FMul" ->
           LET a == args[1]
               b == args[2]
           IN
               IF a.m = <<>> \/ b.m = <<>> THEN FZero
               ELSE LET product == BMul(a.m, b.m)
                    IN  Then(<<product>>, RoundPack(a.neg /= b.neg, product, a.e + b.e, FALSE))
      [] fn = "FDiv" ->
           LET a == args[1]
               b == args[2]
           IN
               IF a.m = <<>> THEN FZero
               ELSE LET k  == MantBits + 2
                        ak == BShl(a.m, k)
                        qr == BDivMod(ak, b.m)
                    IN  Then(<<ak, qr>>,
                             RoundPack(a.neg /= b.neg, qr[1], a.e - b.e - k, qr[2] /= <<>>))
      [] fn = "FAdd" ->
           LET a == args[1]
               b == args[2]
           IN
               IF a.m = <<>> THEN b
               ELSE IF b.m = <<>> THEN a
               ELSE LET e  == IF a.e < b.e THEN a.e ELSE b.e
                        x  == BShl(a.m, a.e - e)
                        y  == BShl(b.m, b.e - e)
                        c  == BCmp(x, y)
                        m  == IF a.neg = b.neg THEN BAdd(x, y)
                              ELSE IF c > 0 THEN BSub(x, y)
                              ELSE IF c < 0 THEN BSub(y, x)
                              ELSE <<>>
                    IN  Then(<<x, y, m>>,
                             IF a.neg = b.neg \/ c > 0 THEN RoundPack(a.neg, m, e, FALSE)
                             ELSE IF c = 0 THEN FZero
                             ELSE RoundPack(b.neg, m, e, FALSE))
      [] fn = "FSub" ->
           LET a == args[1]
               b == args[2]
           IN  FAdd(a, FNeg(b))
      [] fn = "FCmpMag" ->
           LET a == args[1]
               b == args[2]
           IN
               IF a.m = <<>> /\ b.m = <<>> THEN 0
               ELSE IF a.m = <<>> THEN -1
               ELSE IF b.m = <<>> THEN 1
               ELSE IF a.e < b.e THEN -1
               ELSE IF a.e > b.e THEN 1
               ELSE BCmp(a.m, b.m)
      [] fn = "FCmp" ->
           LET a == args[1]
               b == args[2]
           IN
               IF a.neg /= b.neg THEN (IF a.neg THEN -1 ELSE 1)
               ELSE IF a.neg THEN 0 - FCmpMag(a, b)
               ELSE FCmpMag(a, b)
      [] fn = "FGt" ->
           LET a == args[1]
               b == args[2]
           IN  FCmp(a, b) > 0
      [] fn = "FTrunc" ->
           LET a == args[1]
           IN
               IF a.m = <<>> THEN <<>>
               ELSE IF a.e >= 0 THEN BShl(a.m, a.e)
               ELSE BShr(a.m, 0 - a.e)
      [] fn = "IntOf" ->
           LET a == args[1]
           IN
               LET digits == FTrunc(a)
               IN  [neg |-> a.neg /\ digits /= <<>>, digits |-> digits]
      [] fn = "Deviation" ->
           LET simulated_price == args[1]
               jupiter_price == args[2]
           IN
               LET difference == FSub(simulated_price, jupiter_price)
               IN  Then(<<difference>>, FDiv(FAbs(difference), jupiter_price))
      [] fn = "ExceedsThreshold" ->
           LET deviation == args[1]
           IN  FGt(deviation, Threshold)
      [] fn = "Synthesize" ->
           LET in_amount == args[1]
               jupiter_price == args[2]
               i == args[3]
           IN
               LET variation       == price_variations[i]
                   dex_name        == dex_names[i]
                   simulated_price == FMul(jupiter_price, variation)
                   deviation       == Deviation(simulated_price, jupiter_price)
                   profit_pct      == FMul(deviation, Hundred)
                   up              == FGt(simulated_price, jupiter_price)
                   buy_price       == IF up THEN jupiter_price ELSE simulated_price
                   sell_price      == IF up THEN simulated_price ELSE jupiter_price
               IN  [emit |-> ExceedsThreshold(deviation),
                    buy_dex |-> IF up THEN "Jupiter" ELSE dex_name,
                    sell_dex |-> IF up THEN dex_name ELSE "Jupiter",
                    buy_price |-> buy_price,
                    sell_price |-> sell_price,
                    profit_bps |-> FTrunc(FMul(profit_pct, Hundred)),
                    profit_percentage |-> profit_pct,
                    profit_amount |-> IntOf(FMul(FSub(sell_price, buy_price),
                                                 FFromBig(in_amount)))]
      [] fn = "best_opp" ->
           LET new_opportunities == args[1]
           IN  MaxByProfit(new_opportunities, 2, Len(new_opportunities), new_opportunities[1])
      [] fn = "AverageProfit" ->
           LET history == args[1]
           IN
               LET all_profits == Last(history, StatsWindow)
                   total       == FSum(all_profits, 1, Len(all_profits), FZero)
                   count       == FFromBig(Big(Len(all_profits)))
               IN  Then(<<total, count>>, FDiv(total, count))
      [] fn = "BestProfit" ->
           LET st == args[1]
               new_opportunities == args[2]
           IN
               LET best == best_opp(new_opportunities)
               IN  Then(<<best>>,
                   IF FGt(best.profit_percentage, st.best_profit)
                   THEN [st EXCEPT !.best_profit = best.profit_percentage,
                                   !.top_pair = best.pair]
                   ELSE st)
      [] fn = "WithBatch" ->
           LET st == args[1]
               history == args[2]
               new_opportunities == args[3]
               current_time == args[4]
           IN
               LET average == IF history /= <<>> THEN AverageProfit(history)
                              ELSE st.avg_profit_percentage
               IN  Then(<<average>>,
                        BestProfit(
                            [st EXCEPT !.total_opportunities = @ + Len(new_opportunities),
                                       !.last_opportunity_time = current_time,
                                       !.avg_profit_percentage = average],
                            new_opportunities))
      [] fn = "WithUptime" ->
           LET st == args[1]
               started == args[2]
               current_time == args[3]
           IN
               LET uptime  == FDivBig(Big(current_time - started), Big(TicksPerSecond))
                   minutes == FDiv(uptime, Sixty)
                   total   == FFromBig(Big(st.total_opportunities))
               IN  Then(<<uptime>>,
                        [st EXCEPT !.uptime_seconds = uptime,
                                   !.opportunities_per_minute =
                                       IF current_time - started > 0
                                       THEN Then(<<minutes, total>>, FDiv(total, minutes))
                                       ELSE @])
      [] fn = "update_stats" ->
           LET st == args[1]
               history == args[2]
               new_opportunities == args[3]
               started == args[4]
               current_time == args[5]
           IN
               LET counted == IF new_opportunities /= <<>>
                              THEN WithBatch(st, history, new_opportunities, current_time)
                              ELSE st
               IN  Then(<<counted>>, WithUptime(counted, started, current_time))
      [] fn = "FRound2" ->
           LET x == args[1]
           IN
               IF x.m = <<>> THEN FZero
               ELSE LET scaled == BMulSmall(x.m, 100)
                        cents  == IF x.e >= 0 THEN BShl(scaled, x.e)
                                  ELSE LET sh  == 0 - x.e
                                           q   == BShr(scaled, sh)
                                           rem == BSub(scaled, BShl(q, sh))
                                           c   == BCmp(rem, BShl(<<1>>, sh - 1))
                                       IN  IF c > 0 \/ (c = 0 /\ BIsOdd(q))
                                           THEN BAdd(q, <<1>>) ELSE q
                        rounded == FDivBig(cents, Big(100))
                    IN  Then(<<scaled, cents, rounded>>,
                             IF x.neg THEN FNeg(rounded) ELSE rounded)
      [] fn = "Candidate" ->
           LET dex1 == args[1]
               price1 == args[2]
               dex2 == args[3]
               price2 == args[4]
           IN
               IF price1 = 0 \/ price2 = 0 THEN <<>>
               ELSE LET price1_float     == PriceOf(price1)
                        price2_float     == PriceOf(price2)
                        difference       == FSub(price2_float, price1_float)
                        ratio            == FDiv(difference, price1_float)
                        spread           == FMul(ratio, Hundred)
                        estimated_profit == FSub(FAbs(spread), SixTenths)
                    IN  Then(<<price1_float, price2_float, difference, ratio, spread,
                               estimated_profit>>,
                        IF FGt(estimated_profit, min_profit_threshold)
                        THEN << [pair |-> "SOL/USDC", buy_dex |-> dex1, sell_dex |-> dex2,
                                 buy_price |-> price1_float, sell_price |-> price2_float,
                                 spread_percent |-> FRound2(spread),
                                 estimated_profit |-> FRound2(estimated_profit)] >>
                        ELSE <<>>)
      [] fn = "calculate_arbitrage" ->
           LET prices == args[1]
           IN  Candidate("jupiter", prices.jupiter, "raydium", prices.raydium)
                   \o Candidate("raydium", prices.raydium, "jupiter", prices.jupiter)
      [] fn = "Counted" ->
           LET d == args[1]
               opps == args[2]
               j == args[3]
           IN
               IF j > Len(opps) THEN d
               ELSE LET total == FAdd(d.total_profit, opps[j].estimated_profit)
                    IN  Then(<<total>>,
                        Counted([d EXCEPT
                                    !.opportunities_found = @ + 1,
                                    !.total_profit = total,
                                    !.best_profit = IF FGt(opps[j].estimated_profit, @)
                                                    THEN opps[j].estimated_profit ELSE @],
                                opps, j + 1))

(***************************************************************************)
(* State                                                                   *)
(***************************************************************************)
VARIABLES
    running,            \* monitor.running
    opportunities,      \* monitor.opportunities
    connection_status,  \* monitor.connection_status
    stats,              \* monitor.stats
    start_time,         \* monitor.start_time
    now,                \* the clock time.time() reads, in ticks
    loop,               \* the background threads of start_monitoring: each
                        \* one's position in run_loop / monitor_loop and locals
    pulled,             \* the latest response of each pull endpoint
    subscriber,         \* a socket client: handle_connect's position, the
                        \* messages handle_connect sent it (inbox) and the
                        \* broadcasts of monitor_loop it received (pushed)
    recorded,           \* history variable: every batch recorded, concatenated
    stop_requested,     \* history variable: stop_monitoring was called after
                        \* the last start_monitoring
    detector            \* the console program (spreadnet.py): the
                        \* SolanaArbitrageDetector of main and run's position

vars == << running, opportunities, connection_status, stats, start_time, now,
           loop, pulled, subscriber, recorded, stop_requested, detector >>

\* the state of the web program (app.py)
monitor == << running, opportunities, connection_status, stats, start_time, now,
              loop, pulled, subscriber, recorded, stop_requested >>

clients == << pulled, subscriber >>

MaxLoops == 2
Loops == 1..MaxLoops

\* SolanaMonitor.__init__
InitialStatus ==
    [rpc_health |-> FALSE, jupiter_api |-> FALSE, websocket |-> FALSE,
     last_slot |-> 0, last_update |-> 0]

InitialStats ==
    [total_opportunities |-> 0, avg_profit_percentage |-> FZero,
     opportunities_per_minute |-> FZero, uptime_seconds |-> FZero,
     last_opportunity_time |-> 0, top_pair |-> "", best_profit |-> FZero]

\* The composite a reader can see: status, stats and history
Composite == << connection_status, stats, opportunities >>

\* No pull endpoint has answered yet
NothingPulled == [connection_status |-> <<>>, system_stats |-> <<>>, opportunities |-> <<>>]

\* No client has connected yet
NoSubscriber == [pc |-> "none", inbox |-> <<>>, current_time |-> 0, pushed |-> <<>>]

\* a thread that start_monitoring has not created yet.  quotes (what this
\* cycle's quote requests brought back) and before (the composite when this
\* cycle began) are history fields: no step reads them.  slot is the local
\* of update_connection_status (line 286), 0 for None.
NoThread ==
    [pc |-> "none", iteration |-> 0, current_time |-> 0, pair_index |-> 0,
     quotes |-> <<>>, new_opportunities |-> <<>>, wake_at |-> 0, sent |-> <<>>,
     before |-> <<>>, slot |-> 0]

\* SolanaArbitrageDetector.__init__; run has not been called yet.  cycles,
\* jupiter_price, printed and closed_fetches are history fields: cycles of
\* detection begun, the Jupiter price this cycle fetched, the values of
\* opportunities_found that the inline summaries showed, and the requests
\* made on the session after it was closed.
NewDetector ==
    [pc |-> "run", session |-> "none", running |-> FALSE,
     opportunities_found |-> 0, total_profit |-> FZero, best_profit |-> FZero,
     cycles |-> 0, jupiter_price |-> 0, printed |-> <<>>, closed_fetches |-> 0]

Init ==
    /\ running = FALSE
    /\ opportunities = <<>>
    /\ connection_status = InitialStatus
    /\ stats = InitialStats
    /\ start_time = 0
    /\ now = 0
    /\ loop = [l \in Loops |-> NoThread]
    /\ pulled = NothingPulled
    /\ subscriber = NoSubscriber
    /\ recorded = <<>>
    /\ stop_requested = FALSE
    /\ detector = NewDetector

Message(event, data) == [event |-> event, data |-> data]

InCycle(l) ==
    loop[l].pc \in {"rpc", "jupiter", "slot", "detect", "extend", "truncate",
                    "update_stats", "emit_opportunities", "emit_status", "emit_stats"}

(***************************************************************************)
(* The clock                                                               *)
(***************************************************************************)
Tick(d) ==
    /\ now' = now + d
    /\ UNCHANGED << detector, clients, running, opportunities, connection_status, stats, start_time,
                    loop, recorded, stop_requested >>

(***************************************************************************)
(* start_monitoring / stop_monitoring                                      *)
(***************************************************************************)
\* start_monitoring: creates and starts a daemon thread; nothing else
start_monitoring(l) ==
    /\ loop[l].pc = "none"
    /\ loop' = [loop EXCEPT ![l].pc = "run_loop"]
    /\ stop_requested' = FALSE
    /\ UNCHANGED << detector, clients, running, opportunities, connection_status, stats, start_time,
                    now, recorded >>

\* run_loop, in the new thread: self.running = True, then monitor_loop()
run_loop(l) ==
    /\ loop[l].pc = "run_loop"
    /\ running' = TRUE
    /\ loop' = [loop EXCEPT ![l].pc = "while", ![l].iteration = 0]
    /\ UNCHANGED << detector, clients, opportunities, connection_status, stats, start_time, now,
                    recorded, stop_requested >>

stop_monitoring ==
    /\ running' = FALSE
    /\ stop_requested' = TRUE
    /\ UNCHANGED << detector, clients, opportunities, connection_status, stats, start_time, now,
                    loop, recorded >>

(***************************************************************************)
(* monitor_loop, one step per await or statement group                     *)
(***************************************************************************)
\* line 325: while self.running; lines 327-331 up to the first await, which
\* includes update_connection_status reading the clock (line 277)
LoopTest(l) ==
    /\ loop[l].pc = "while"
    /\ IF running
       THEN loop' = [loop EXCEPT ![l].pc = "rpc",
                                 ![l].iteration = @ + 1,
                                 ![l].current_time = now,
                                 ![l].quotes = <<>>,
                                 ![l].new_opportunities = <<>>,
                                 ![l].sent = <<>>,
                                 ![l].before = Composite,
                                 ![l].slot = 0]
       ELSE loop' = [loop EXCEPT ![l].pc = "done"]
    /\ UNCHANGED << detector, clients, running, opportunities, connection_status, stats, start_time,
                    now, recorded, stop_requested >>

\* line 280: check_rpc_health never raises; ok is its result
StatusRpc(l, ok) ==
    /\ loop[l].pc = "rpc"
    /\ connection_status' = [connection_status EXCEPT !.rpc_health = ok]
    /\ loop' = [loop EXCEPT ![l].pc = "jupiter"]
    /\ UNCHANGED << detector, clients, running, opportunities, stats, start_time, now, recorded,
                    stop_requested >>

\* the except branch of monitor_loop replaced by the end of the loop
Crashing(l) == [loop EXCEPT ![l].pc = "done"]

\* the except branch of monitor_loop (lines 355-357): log, then sleep 5 s
Recovering(l) ==
    [loop EXCEPT ![l].pc = "recover",
                 ![l].wake_at = now + RecoverySleep * TicksPerSecond]

\* line 283: check_jupiter_health, given what its quote request brings back
StatusJupiter(l, payload) ==
    /\ loop[l].pc = "jupiter"
    /\ IF payload.kind = "scalar"
       THEN /\ loop' = Recovering(l)
            /\ UNCHANGED connection_status
       ELSE /\ connection_status' =
                   [connection_status EXCEPT !.jupiter_api = HasOutAmount(payload)]
            /\ loop' = [loop EXCEPT ![l].pc = "slot"]
    /\ UNCHANGED << detector, clients, running, opportunities, stats, start_time, now, recorded,
                    stop_requested >>

\* lines 286-292, then detect_arbitrage_opportunities up to its first await
\* (line 226 reads the clock).  slot is get_current_slot's result, 0 for None
\* (both are falsy at line 287).
StatusSlot(l, slot) ==
    /\ loop[l].pc = "slot"
    /\ connection_status' =
           [connection_status EXCEPT
               !.last_slot = IF slot /= 0 THEN slot ELSE @,
               !.websocket = TRUE,
               !.last_update = loop[l].current_time]
    /\ loop' = [loop EXCEPT ![l].pc = "detect",
                            ![l].current_time = now,
                            ![l].pair_index = 1,
                            ![l].slot = slot]
    /\ UNCHANGED << detector, clients, running, opportunities, stats, start_time, now, recorded,
                    stop_requested >>

\* lines 228-271 for one trading pair: the quote request and what follows it
DetectFetch(l, payload) ==
    /\ loop[l].pc = "detect"
    /\ IF QuoteRaises(payload)
       THEN loop' = Recovering(l)
       ELSE loop' = [loop EXCEPT
                ![l].new_opportunities =
                    @ \o DetectPair(trading_pairs[loop[l].pair_index], payload,
                                    loop[l].current_time),
                ![l].quotes = Append(@, payload),
                ![l].pair_index = @ + 1,
                ![l].pc = IF loop[l].pair_index = Len(trading_pairs)
                          THEN "extend" ELSE "detect"]
    /\ UNCHANGED << detector, clients, running, opportunities, connection_status, stats, start_time,
                    now, recorded, stop_requested >>

\* line 337
Extend(l) ==
    /\ loop[l].pc = "extend"
    /\ opportunities' = opportunities \o loop[l].new_opportunities
    /\ recorded' = recorded \o loop[l].new_opportunities
    /\ loop' = [loop EXCEPT ![l].pc = "truncate"]
    /\ UNCHANGED << detector, clients, running, connection_status, stats, start_time, now,
                    stop_requested >>

\* line 338 with 51 for 50
KeepRecentAndOneMore(history) == Last(history, HistoryWindow + 1)

\* line 338 with [:50] for [-50:]
KeepOldest(history) ==
    SubSeq(history, 1, IF Len(history) < HistoryWindow THEN Len(history) ELSE HistoryWindow)

\* line 338 with 20 for 50
KeepRecentTwenty(history) == Last(history, 20)

\* line 338, right side: self.opportunities[-50:]
KeepRecent(history) == Last(history, HistoryWindow)

\* line 338
Truncate(l) ==
    /\ loop[l].pc = "truncate"
    /\ opportunities' = KeepRecent(opportunities)
    /\ loop' = [loop EXCEPT ![l].pc = "update_stats"]
    /\ UNCHANGED << detector, clients, running, connection_status, stats, start_time, now, recorded,
                    stop_requested >>


\* line 341
UpdateStats(l) ==
    /\ loop[l].pc = "update_stats"
    /\ stats' = update_stats(stats, opportunities, loop[l].new_opportunities,
                             start_time, now)
    /\ loop' = [loop EXCEPT ![l].pc = "emit_opportunities"]
    /\ UNCHANGED << detector, clients, running, opportunities, connection_status, start_time, now,
                    recorded, stop_requested >>

\* socketio.emit without a recipient: the messages reach the client if it is
\* connected, that is, from the moment handle_connect is called for it
Broadcast(messages) ==
    /\ subscriber' = IF subscriber.pc = "none" THEN subscriber
                     ELSE [subscriber EXCEPT !.pushed = @ \o messages]
    /\ UNCHANGED pulled

\* lines 344-347
EmitOpportunities(l) ==
    /\ loop[l].pc = "emit_opportunities"
    /\ loop' = [loop EXCEPT
           ![l].sent = @ \o [i \in 1..Len(loop[l].new_opportunities) |->
                                Message("new_opportunity", loop[l].new_opportunities[i])],
           ![l].pc = "emit_status"]
    /\ Broadcast([i \in 1..Len(loop[l].new_opportunities) |->
                     Message("new_opportunity", loop[l].new_opportunities[i])])
    /\ UNCHANGED << detector, running, opportunities, connection_status, stats, start_time,
                    now, recorded, stop_requested >>

\* line 349
EmitStatus(l) ==
    /\ loop[l].pc = "emit_status"
    /\ loop' = [loop EXCEPT
           ![l].sent = Append(@, Message("connection_status", connection_status)),
           ![l].pc = "emit_stats"]
    /\ Broadcast(<< Message("connection_status", connection_status) >>)
    /\ UNCHANGED << detector, running, opportunities, connection_status, stats, start_time,
                    now, recorded, stop_requested >>

\* lines 350-353: the last emit, then asyncio.sleep(8) begins
EmitStats(l) ==
    /\ loop[l].pc = "emit_stats"
    /\ loop' = [loop EXCEPT
           ![l].sent = Append(@, Message("system_stats", stats)),
           ![l].pc = "sleep",
           ![l].wake_at = now + CycleSleep * TicksPerSecond]
    /\ Broadcast(<< Message("system_stats", stats) >>)
    /\ UNCHANGED << detector, running, opportunities, connection_status, stats, start_time,
                    now, recorded, stop_requested >>

\* asyncio.sleep(8) or asyncio.sleep(5) returns, no earlier than asked
Wake(l) ==
    /\ loop[l].pc \in {"sleep", "recover"}
    /\ now >= loop[l].wake_at
    /\ loop' = [loop EXCEPT ![l].pc = "while"]
    /\ UNCHANGED << detector, clients, running, opportunities, connection_status, stats, start_time,
                    now, recorded, stop_requested >>


(***************************************************************************)
(* The pull endpoints.  Each response is kept with the cycle that was in   *)
(* flight in every loop thread when it was made (0: none), a history field.*)
(***************************************************************************)
InFlight == [l \in Loops |-> IF InCycle(l) THEN loop[l].iteration ELSE 0]

Response(data) == << [data |-> data, at |-> now, during |-> InFlight] >>

\* lines 391-394 without the filter
every_opportunity(history, current_time) == history

\* lines 391-394 and 421-424
valid_opportunities(history, current_time) ==
    SelectSeq(history, LAMBDA opp : is_valid(opp, current_time))

get_opportunities ==
    /\ pulled' = [pulled EXCEPT
           !.opportunities = Response(valid_opportunities(opportunities, now))]
    /\ UNCHANGED << detector, subscriber, running, opportunities, connection_status, stats,
                    start_time, now, loop, recorded, stop_requested >>

get_connection_status ==
    /\ pulled' = [pulled EXCEPT !.connection_status = Response(connection_status)]
    /\ UNCHANGED << detector, subscriber, running, opportunities, connection_status, stats,
                    start_time, now, loop, recorded, stop_requested >>

get_stats ==
    /\ pulled' = [pulled EXCEPT !.system_stats = Response(stats)]
    /\ UNCHANGED << detector, subscriber, running, opportunities, connection_status, stats,
                    start_time, now, loop, recorded, stop_requested >>

(***************************************************************************)
(* handle_connect, one step per emit                                       *)
(***************************************************************************)
\* a client connects; line 416
ConnectStatus ==
    /\ subscriber.pc \in {"none", "done"}
    /\ subscriber' = [pc |-> "stats",
                      inbox |-> << Message("connection_status", connection_status) >>,
                      current_time |-> 0,
                      pushed |-> <<>>]
    /\ UNCHANGED << detector, pulled, running, opportunities, connection_status, stats,
                    start_time, now, loop, recorded, stop_requested >>

\* line 417
ConnectStats ==
    /\ subscriber.pc = "stats"
    /\ subscriber' = [subscriber EXCEPT
           !.pc = "opportunities",
           !.inbox = Append(@, Message("system_stats", stats))]
    /\ UNCHANGED << detector, pulled, running, opportunities, connection_status, stats,
                    start_time, now, loop, recorded, stop_requested >>

\* lines 420-425
ConnectOpportunities ==
    /\ subscriber.pc = "opportunities"
    /\ subscriber' = [subscriber EXCEPT
           !.pc = "done",
           !.current_time = now,
           !.inbox = Append(@, Message("opportunities_update",
                                       valid_opportunities(opportunities, now)))]
    /\ UNCHANGED << detector, pulled, running, opportunities, connection_status, stats,
                    start_time, now, loop, recorded, stop_requested >>


(***************************************************************************)
(* Specifications.  Each one runs the same actions; they differ in which   *)
(* threads exist and in what the environment (the two upstream services,   *)
(* the clock, the clients) is allowed to do.                               *)
(***************************************************************************)
\* what follows detection in a cycle, and the end of its sleep
CycleSteps(l) ==
    \/ Extend(l)
    \/ Truncate(l)
    \/ UpdateStats(l)
    \/ EmitOpportunities(l)
    \/ EmitStatus(l)
    \/ EmitStats(l)
    \/ Wake(l)

\* the clock runs to the moment the sleep of thread l ends
Elapse(l) ==
    /\ loop[l].pc \in {"sleep", "recover"}
    /\ now < loop[l].wake_at
    /\ Tick(loop[l].wake_at - now)

\* the monitor is started once, as app.py's main does
StartOnce(l) == start_monitoring(l) \/ run_loop(l)

\* healthy upstream services for update_connection_status
HealthyStatus(l) ==
    \/ StatusRpc(l, TRUE)
    \/ StatusJupiter(l, Q150)
    \/ StatusSlot(l, 1)

(* SpecCycles: one loop, many cycles, every quote request answered; the    *)
(* batches have 6 or 8 opportunities, so the history fills and overflows.  *)
MaxCycles == 7

NextCycles ==
    \/ StartOnce(1)
    \/ loop[1].iteration < MaxCycles /\ LoopTest(1)
    \/ HealthyStatus(1)
    \/ \E payload \in IF loop[1].pair_index = 1 THEN {Q481, Q150} ELSE {Q481} :
           DetectFetch(1, payload)
    \/ CycleSteps(1)
    \/ Elapse(1)

SpecCycles == Init /\ [][NextCycles]_vars

(* SpecDetect: one detection pass over every pair of quotes of the model.  *)
NextDetect ==
    \/ StartOnce(1)
    \/ loop[1].iteration = 0 /\ LoopTest(1)
    \/ HealthyStatus(1)
    \/ \E payload \in GoodQuotes : DetectFetch(1, payload)

SpecDetect == Init /\ [][NextDetect]_vars

(* SpecFaults: one loop, a few cycles, quote requests that fail, come     *)
(* back without a price, come back malformed, or succeed.                  *)
MaxFaultCycles == 3

NextFaults ==
    \/ StartOnce(1)
    \/ loop[1].iteration < MaxFaultCycles /\ LoopTest(1)
    \/ HealthyStatus(1)
    \/ \E payload \in IF loop[1].pair_index = 1
                      THEN {NoQuote, Q150}
                      ELSE {NoOutAmount, BadQuote, QOne} :
           DetectFetch(1, payload)
    \/ CycleSteps(1)
    \/ Elapse(1)

SpecFaults == Init /\ [][NextFaults]_vars

(* SpecControl: start_monitoring and stop_monitoring called in any order, *)
(* each start creating the next thread; the upstream returns no quote.     *)
MaxControlCycles == 2

NextControl ==
    \/ \E l \in Loops :
           /\ \A k \in 1..(l - 1) : loop[k].pc /= "none"
           /\ start_monitoring(l)
    \/ \E l \in Loops : run_loop(l)
    \/ ~stop_requested /\ stop_monitoring
    \/ \E l \in Loops : loop[l].iteration < MaxControlCycles /\ LoopTest(l)
    \/ \E l \in Loops : HealthyStatus(l)
    \/ \E l \in Loops : DetectFetch(l, NoQuote)
    \/ \E l \in Loops : CycleSteps(l)
    \/ \E l \in Loops : Elapse(l)

SpecControl == Init /\ [][NextControl]_vars

(* SpecPull: one loop with healthy upstream services, and the three pull  *)
(* endpoints called at any point of a cycle in flight.                     *)
MaxPullCycles == 2

PullQuery ==
    \/ get_opportunities
    \/ get_connection_status
    \/ get_stats

NextPull ==
    \/ StartOnce(1)
    \/ loop[1].iteration < MaxPullCycles /\ LoopTest(1)
    \/ HealthyStatus(1)
    \/ DetectFetch(1, Q150)
    \/ CycleSteps(1)
    \/ Elapse(1)
    \/ InCycle(1) /\ PullQuery

SpecPull == Init /\ [][NextPull]_vars

(* SpecConnect: one loop that records opportunities in its first cycles,  *)
(* a clock that then runs on while the loop sleeps, and a client that      *)
(* connects (and reconnects) at any point.                                 *)
MaxConnectCycles == 2
MaxClock == 40

\* two seconds pass after the last cycle of the run
LateTick ==
    /\ loop[1].iteration = MaxConnectCycles
    /\ loop[1].pc = "sleep"
    /\ now < MaxClock * TicksPerSecond
    /\ Tick(2 * TicksPerSecond)

handle_connect ==
    \/ ConnectStatus
    \/ ConnectStats
    \/ ConnectOpportunities

NextConnect ==
    \/ StartOnce(1)
    \/ loop[1].iteration < MaxConnectCycles /\ LoopTest(1)
    \/ HealthyStatus(1)
    \/ \E payload \in IF loop[1].pair_index = 1 THEN {Q150} ELSE {NoQuote} :
           DetectFetch(1, payload)
    \/ CycleSteps(1)
    \/ loop[1].iteration < MaxConnectCycles /\ Elapse(1)
    \/ LateTick
    \/ handle_connect

SpecConnect == Init /\ [][NextConnect]_vars

(* SpecExpiry: the run of SpecConnect, with the pull endpoint              *)
(* /api/opportunities called at any point in place of the socket client.   *)
NextExpiry ==
    \/ StartOnce(1)
    \/ loop[1].iteration < MaxConnectCycles /\ LoopTest(1)
    \/ HealthyStatus(1)
    \/ \E payload \in IF loop[1].pair_index = 1 THEN {Q150} ELSE {NoQuote} :
           DetectFetch(1, payload)
    \/ CycleSteps(1)
    \/ loop[1].iteration < MaxConnectCycles /\ Elapse(1)
    \/ LateTick
    \/ get_opportunities

SpecExpiry == Init /\ [][NextExpiry]_vars

(* SpecRecover: one loop whose upstream answers are sometimes malformed,   *)
(* so that cycles are aborted by an exception while the status is updated  *)
(* or while a pair is examined, and a stop_monitoring call at any point.   *)
(* The event loop resumes a coroutine whose sleep is over, hence the       *)
(* fairness condition on the steps that end a delay and test the loop.     *)
MaxRecoverCycles == 3

Resume ==
    \/ Elapse(1)
    \/ Wake(1)
    \/ loop[1].iteration < MaxRecoverCycles /\ LoopTest(1)

NextRecover ==
    \/ StartOnce(1)
    \/ loop[1].iteration < MaxRecoverCycles /\ LoopTest(1)
    \/ StatusRpc(1, TRUE)
    \/ \E payload \in {Q150, ScalarBody} : StatusJupiter(1, payload)
    \/ StatusSlot(1, 1)
    \/ \E payload \in {Q150, BadQuote} : DetectFetch(1, payload)
    \/ CycleSteps(1)
    \/ Elapse(1)
    \/ loop[1].pc /= "none" /\ ~stop_requested /\ stop_monitoring

SpecRecover == Init /\ [][NextRecover]_vars /\ WF_vars(Resume)

(* SpecWindow: one loop whose cycles find eight opportunities or none, so  *)
(* that the history overflows and cycles with an empty batch follow cycles *)
(* with a full one.                                                        *)
MaxWindowCycles == 8

NextWindow ==
    \/ StartOnce(1)
    \/ loop[1].iteration < MaxWindowCycles /\ LoopTest(1)
    \/ HealthyStatus(1)
    \/ \E payload \in IF loop[1].quotes = <<>> THEN {NoQuote, Q481}
                      ELSE {loop[1].quotes[1]} :
           DetectFetch(1, payload)
    \/ CycleSteps(1)
    \/ Elapse(1)

SpecWindow == Init /\ [][NextWindow]_vars

(* SpecStatus: one loop whose probes of the upstream services succeed or  *)
(* fail in every combination, cycle after cycle; no quote for the pairs.   *)
MaxStatusCycles == 3
Slots == {0, 1, 2}

NextStatus ==
    \/ StartOnce(1)
    \/ loop[1].iteration < MaxStatusCycles /\ LoopTest(1)
    \/ \E ok \in BOOLEAN : StatusRpc(1, ok)
    \/ \E payload \in {NoQuote, Q150} : StatusJupiter(1, payload)
    \/ \E slot \in Slots : StatusSlot(1, slot)
    \/ DetectFetch(1, NoQuote)
    \/ CycleSteps(1)
    \/ Elapse(1)

SpecStatus == Init /\ [][NextStatus]_vars

(* SpecIds: one loop; the requests of a cycle take time, so that cycles    *)
(* begin at any half second; a cycle finds opportunities for both pairs or *)
(* is aborted by a malformed quote.                                        *)
MaxIdCycles == 4
MaxAwaitTicks == 1

\* time passes while update_connection_status awaits its probes
Await ==
    /\ loop[1].pc \in {"rpc", "jupiter", "slot"}
    /\ now - loop[1].current_time < MaxAwaitTicks
    /\ Tick(1)

NextIds ==
    \/ StartOnce(1)
    \/ loop[1].iteration < MaxIdCycles /\ LoopTest(1)
    \/ HealthyStatus(1)
    \/ Await
    \/ \E payload \in {Q150, BadQuote} : DetectFetch(1, payload)
    \/ CycleSteps(1)
    \/ Elapse(1)

SpecIds == Init /\ [][NextIds]_vars

(***************************************************************************)
(* The console program (spreadnet.py).  It is a process of its own: it     *)
(* shares nothing with the monitor of app.py.  Prices are given to the     *)
(* model in thousandths (100702 is the JSON number 100.702); 0 stands for  *)
(* a price that is missing or zero, both falsy at line 115.  The timestamp *)
(* of an opportunity is display text and is left out.                      *)
(***************************************************************************)
\* the prices the two services return in the model: equal prices (no
\* opportunity), 0.702 % apart (one opportunity), 1 % apart (two)
JupiterPrices == {0, 100000}
RaydiumPrices == {100000, 100702, 101000}

\* calculate_arbitrage for every pair of prices of the model, worked out once
Calculated ==
    [jupiter \in JupiterPrices |->
        [raydium \in RaydiumPrices |->
            calculate_arbitrage([jupiter |-> jupiter, raydium |-> raydium])]]

\* line 191
summary_due(d) == d.opportunities_found > 0 /\ d.opportunities_found % SummaryEvery = 0

\* lines 191-194
Summarized(d) ==
    IF summary_due(d) THEN [d EXCEPT !.printed = Append(@, d.opportunities_found)]
    ELSE d

\* cleanup without closing the session
abandon(d) == d

\* cleanup (lines 61-64)
cleanup(d) ==
    IF d.session /= "none" THEN [d EXCEPT !.session = "closed"] ELSE d

\* one request on self.session
Requested(d) ==
    [d EXCEPT !.closed_fetches = IF d.session = "closed" THEN @ + 1 ELSE @]

\* run, lines 201-208: initialize, which succeeds or raises (the exception
\* leaves run before its try), then running = True and the banner
initialize(ok) ==
    /\ detector.pc = "run"
    /\ detector' = IF ok
                   THEN [detector EXCEPT !.session = "open", !.running = TRUE,
                                         !.pc = "while"]
                   ELSE [detector EXCEPT !.pc = "done"]
    /\ UNCHANGED monitor

\* line 210: while self.running; the loop left normally goes to finally
run_while ==
    /\ detector.pc = "while"
    /\ detector' = IF detector.running
                   THEN [detector EXCEPT !.pc = "fetch_jupiter", !.cycles = @ + 1]
                   ELSE [detector EXCEPT !.pc = "cleanup"]
    /\ UNCHANGED monitor

\* line 167: fetch_jupiter_prices returns (every failure gives {}, price 0)
fetch_jupiter_prices(price) ==
    /\ detector.pc = "fetch_jupiter"
    /\ detector' = [Requested(detector) EXCEPT !.jupiter_price = price,
                                               !.pc = "fetch_raydium"]
    /\ UNCHANGED monitor

\* lines 168-194: fetch_raydium_prices returns, then the rest of
\* detect_arbitrage_cycle; line 212: asyncio.sleep(2) begins
detect_arbitrage_cycle(price) ==
    /\ detector.pc = "fetch_raydium"
    /\ detector' =
           [Summarized(Counted(Requested(detector),
                               Calculated[detector.jupiter_price][price], 1))
               EXCEPT !.pc = "sleep"]
    /\ UNCHANGED monitor

\* lines 171-176 raise (a body that is not a JSON object): lines 196-197 log
\* the exception, nothing is counted or printed
detect_raises ==
    /\ detector.pc = "fetch_raydium"
    /\ detector' = [Requested(detector) EXCEPT !.pc = "sleep"]
    /\ UNCHANGED monitor

\* asyncio.sleep(2) returns
sleep_returns ==
    /\ detector.pc = "sleep"
    /\ detector' = [detector EXCEPT !.pc = "while"]
    /\ UNCHANGED monitor

\* Ctrl+C while run is in its loop.  Depending on the interpreter and on
\* where the signal falls, run sees KeyboardInterrupt (lines 214-216) or is
\* cancelled by asyncio.run (CancelledError, not caught at line 196 nor at
\* line 214); both reach finally.
interrupt(exception) ==
    /\ detector.pc \in {"while", "fetch_jupiter", "fetch_raydium", "sleep"}
    /\ detector' = [detector EXCEPT
                       !.running = IF exception = "KeyboardInterrupt" THEN FALSE ELSE @,
                       !.pc = "cleanup"]
    /\ UNCHANGED monitor

\* lines 218-226: finally
run_finally ==
    /\ detector.pc = "cleanup"
    /\ detector' = [cleanup(detector) EXCEPT !.pc = "done"]
    /\ UNCHANGED monitor

(* SpecConsole: one run of the console program, interrupted at any moment  *)
(* or never.                                                               *)
MaxConsoleCycles == 12

NextConsole ==
    \/ \E ok \in BOOLEAN : initialize(ok)
    \/ detector.cycles < MaxConsoleCycles /\ run_while
    \/ \E price \in JupiterPrices : fetch_jupiter_prices(price)
    \/ \E price \in RaydiumPrices : detect_arbitrage_cycle(price)
    \/ detect_raises
    \/ sleep_returns
    \/ \E exception \in {"KeyboardInterrupt", "CancelledError"} : interrupt(exception)
    \/ run_finally

SpecConsole == Init /\ [][NextConsole]_vars

(***************************************************************************)
(* Claims                                                                  *)
(***************************************************************************)
\* No loop thread is between its extend (line 337) and its truncate (line 338)
RecordStepDone == \A l \in Loops : loop[l].pc /= "truncate"

\* C1: after each cycle's record step (extend, then truncate) the history
\* holds at most 50 entries, whatever the batch sizes were.
C1_HistoryBounded == RecordStepDone => Len(opportunities) <= 50

\* C1 witness: a cycle has just truncated a history that had overflowed
C1_Witness ==
    /\ loop[1].pc = "update_stats"
    /\ Len(opportunities) = 50
    /\ Len(recorded) > 50

\* C2: after every completed record step the history is the last
\* min(50, total) elements of all batches recorded so far, in recording order.
C2_HistoryIsRecentSuffix ==
    RecordStepDone =>
        LET total == Len(recorded)
            kept  == IF total < 50 THEN total ELSE 50
        IN  /\ Len(opportunities) = kept
            /\ \A i \in 1..kept : opportunities[i] = recorded[total - kept + i]

\* C2 witness: N + k opportunities recorded with k > 0, the record step done
C2_Witness ==
    /\ loop[1].pc = "sleep"
    /\ Len(recorded) > 50 + 2
    /\ opportunities[1] = recorded[Len(recorded) - 49]


\* The opportunities of the batch of thread l for pair k and the multiplier at
\* index i (its label is the side that is not Jupiter)
BatchEntries(l, k, i) ==
    { j \in 1..Len(loop[l].new_opportunities) :
        /\ loop[l].new_opportunities[j].pair = trading_pairs[k].pair_name
        /\ dex_names[i] \in { loop[l].new_opportunities[j].buy_dex,
                              loop[l].new_opportunities[j].sell_dex } }

\* |r * m - r| / r > 0.005 in Python's float arithmetic, for every quote of the
\* model (r = output / input) and every multiplier m, worked out once
DeviationExceeds ==
    [q \in GoodQuotes |->
        [i \in 1..5 |->
            LET r == FDivBig(q.outAmount, q.inAmount)
                m == price_variations[i]
            IN  FCmp(FDiv(FAbs(FSub(FMul(r, m), r)), r), FDivBig(<<5>>, <<1000>>)) = 1]]

\* C4: for every quote with r > 0 and every multiplier m of the list, the pass
\* emits an opportunity for (quote, m) exactly when |r*m - r| / r, computed in
\* floats as the code computes it, is strictly greater than 0.005; a deviation
\* equal to the threshold emits nothing.
C4_EmitIffAboveThreshold ==
    \A l \in Loops : \A k \in 1..Len(loop[l].quotes) : \A i \in 1..5 :
        LET q == loop[l].quotes[k]
        IN  q.kind = "quote" =>
                Cardinality(BatchEntries(l, k, i))
                    = IF DeviationExceeds[q][i] THEN 1 ELSE 0

\* C4 witness: a pass over r = 150, whose deviation for 0.995 is the float
\* 0.005 itself (nothing emitted), and over r = 481e-9, whose deviation for
\* 0.995 is above it (emitted)
C4_Witness ==
    /\ loop[1].pc = "extend"
    /\ loop[1].quotes = << Q150, Q481 >>
    /\ Deviation(FMul(FDivBig(Q150.outAmount, Q150.inAmount), price_variations[1]),
                 FDivBig(Q150.outAmount, Q150.inAmount)) = Threshold
    /\ BatchEntries(1, 1, 1) = {}
    /\ BatchEntries(1, 2, 1) /= {}

\* The multipliers for which the batch of thread l has an opportunity of pair k
EmittedMultipliers(l, k) == { i \in 1..5 : BatchEntries(l, k, i) /= {} }

EntriesOfPair(l, k) ==
    { j \in 1..Len(loop[l].new_opportunities) :
        loop[l].new_opportunities[j].pair = trading_pairs[k].pair_name }

\* C5 as claimed: the quote in = 1e9, out = 150e9 yields exactly 4
\* opportunities, for 0.995, 1.005, 1.012 and 0.992, and none for 0.998.
C5_FourOpportunities ==
    \A l \in Loops : \A k \in 1..Len(loop[l].quotes) :
        loop[l].quotes[k] = Q150 =>
            /\ Cardinality(EntriesOfPair(l, k)) = 4
            /\ EmittedMultipliers(l, k) = {1, 2, 4, 5}

\* C5 amended: that quote yields exactly 2 opportunities, for 1.012 and 0.992,
\* and none for 0.995, 1.005 and 0.998.
C5_TwoOpportunities ==
    \A l \in Loops : \A k \in 1..Len(loop[l].quotes) :
        loop[l].quotes[k] = Q150 =>
            /\ Cardinality(EntriesOfPair(l, k)) = 2
            /\ EmittedMultipliers(l, k) = {4, 5}

\* C5 witness: a finished pass in which both pairs were quoted at r = 150
C5_Witness ==
    /\ loop[1].pc = "extend"
    /\ loop[1].quotes = << Q150, Q150 >>
    /\ Len(loop[1].new_opportunities) = 4


\* The largest profit_percentage among opps[lo..hi], or best if none is larger
RECURSIVE LargestProfit(_, _, _, _)
LargestProfit(opps, lo, hi, best) ==
    IF lo > hi \/ best.e > 2000 THEN best
    ELSE IF lo = hi
    THEN (IF FCmp(opps[lo].profit_percentage, best) = 1
          THEN opps[lo].profit_percentage ELSE best)
    ELSE LET mid == (lo + hi) \div 2
         IN  LargestProfit(opps, mid + 1, hi, LargestProfit(opps, lo, mid, best))

\* No loop thread has recorded a batch that update_stats has not seen yet
StatsSettled == \A l \in Loops : loop[l].pc \notin {"truncate", "update_stats"}

\* C3: stats.best_profit never decreases, across update_stats calls with empty
\* and non-empty batches alike, and once a cycle's update_stats has run it
\* equals the largest profit_percentage of every opportunity ever recorded
\* (0.0 if none).
C3_BestProfitHighWaterMark ==
    /\ [](StatsSettled => FCmp(stats.best_profit, LargestProfit(recorded, 1, Len(recorded), FZero)) = 0)
    /\ [][FCmp(stats'.best_profit, stats.best_profit) >= 0]_vars

\* C3 witness: update_stats has just run with an empty batch, after batches
\* whose best was higher and lower than the mark it keeps
C3_Witness ==
    /\ loop[1].pc = "emit_opportunities"
    /\ loop[1].new_opportunities = <<>>
    /\ FGt(stats.best_profit, FZero)
    /\ \E j \in 1..Len(recorded) :
           FCmp(recorded[j].profit_percentage, stats.best_profit) = -1
    /\ FGt(stats.best_profit, recorded[Len(recorded)].profit_percentage)

\* The messages of one kind that a cycle of thread l has emitted
SentOfKind(l, event) ==
    { j \in 1..Len(loop[l].sent) : loop[l].sent[j].event = event }

\* C9 as claimed: every cycle, once over (asleep after its last emit, or in
\* the recovery delay), has emitted exactly one connection_status, exactly
\* one system_stats, and before them one new_opportunity per opportunity it
\* detected, carrying the state as that cycle updated it.
C9_EveryCycleEmits ==
    \A l \in Loops :
        loop[l].pc \in {"sleep", "recover"} =>
            LET n == Len(loop[l].new_opportunities)
            IN  /\ Len(loop[l].sent) = n + 2
                /\ \A j \in 1..n :
                       loop[l].sent[j] =
                           Message("new_opportunity", loop[l].new_opportunities[j])
                /\ loop[l].sent[n + 1] = Message("connection_status", connection_status)
                /\ loop[l].sent[n + 2] = Message("system_stats", stats)


\* C7 as claimed: whatever the sequence of start_monitoring and
\* stop_monitoring calls, at most one execution of the cycle body of
\* monitor_loop is in progress at any time.
C7_CyclesNeverOverlap == Cardinality({ l \in Loops : InCycle(l) }) <= 1

\* C8 as claimed: once stop_monitoring has been called and start_monitoring
\* has not been called again, no loop thread starts a new cycle.
C8_NoCycleAfterStop ==
    [][(stop_requested /\ stop_requested') =>
           \A l \in Loops : loop'[l].iteration = loop[l].iteration]_vars


\* The responses made while the cycle that thread l has just finished was in
\* flight
MadeDuringCycle(l, responses) ==
    responses /= <<>> /\ responses[1].during[l] = loop[l].iteration

\* C6 as claimed: a pull query made while a cycle is in flight returns what
\* the pre-cycle composite or the post-cycle composite holds, never a value
\* in between.  Stated when the cycle is over (its thread asleep), where both
\* composites are known, and for each endpoint on its own.
C6_PullSeesCycleBoundary ==
    \A l \in Loops :
        loop[l].pc = "sleep" =>
            /\ MadeDuringCycle(l, pulled.connection_status) =>
                   pulled.connection_status[1].data
                       \in { loop[l].before[1], connection_status }
            /\ MadeDuringCycle(l, pulled.system_stats) =>
                   pulled.system_stats[1].data \in { loop[l].before[2], stats }
            /\ MadeDuringCycle(l, pulled.opportunities) =>
                   pulled.opportunities[1].data
                       \in { valid_opportunities(loop[l].before[3],
                                                 pulled.opportunities[1].at),
                             valid_opportunities(opportunities,
                                                 pulled.opportunities[1].at) }


\* The tracked opportunities that have not expired at time t: t - timestamp
\* is less than the time to live (seconds, on the clock's scale)
NotExpired(history, t) ==
    { j \in 1..Len(history) :
        t - history[j].timestamp < history[j].ttl_seconds * TicksPerSecond }

\* The entries of history at the positions in keep, in order
Pick(history, keep) ==
    LET kept == SelectSeq([j \in 1..Len(history) |-> << j, history[j] >>],
                          LAMBDA e : e[1] \in keep)
    IN  [k \in 1..Len(kept) |-> kept[k][2]]

\* C10: the three messages of handle_connect carry, each when it is sent, the
\* current connection status, the current stats, and exactly the tracked
\* opportunities with now - timestamp < ttl, in order; that list is non-empty
\* if and only if a tracked opportunity has not expired.
C10_ConnectSnapshot ==
    [][/\ (subscriber'.pc = "stats" /\ subscriber.pc /= "stats") =>
              subscriber'.inbox = << Message("connection_status", connection_status) >>
       /\ (subscriber'.pc = "opportunities" /\ subscriber.pc = "stats") =>
              subscriber'.inbox = Append(subscriber.inbox, Message("system_stats", stats))
       /\ (subscriber'.pc = "done" /\ subscriber.pc = "opportunities") =>
              /\ Len(subscriber'.inbox) = 3
              /\ SubSeq(subscriber'.inbox, 1, 2) = subscriber.inbox
              /\ subscriber'.inbox[3].event = "opportunities_update"
              /\ subscriber'.inbox[3].data
                     = Pick(opportunities, NotExpired(opportunities, now))
              /\ (subscriber'.inbox[3].data /= <<>>)
                     <=> (NotExpired(opportunities, now) /= {})
      ]_vars

\* C10 witness: a client received a non-empty snapshot that leaves out a
\* tracked opportunity exactly as old as its time to live
C10_Witness ==
    /\ subscriber.pc = "done"
    /\ subscriber.current_time = now
    /\ Len(subscriber.inbox) = 3
    /\ subscriber.inbox[3].data /= <<>>
    /\ \E j \in 1..Len(opportunities) :
           now - opportunities[j].timestamp = opportunities[j].ttl_seconds * TicksPerSecond
    /\ Len(subscriber.inbox[3].data) < Len(opportunities)


\* C11: a call of get_opportunities at time now returns exactly the history
\* entries with now - timestamp < ttl_seconds, in history order; an entry is
\* in the response if and only if now is before its timestamp plus its ttl,
\* so it is left out from timestamp + ttl on.
C11_PullReturnsUnexpired ==
    [][pulled'.opportunities /= pulled.opportunities =>
          LET data == pulled'.opportunities[1].data
          IN  /\ data = Pick(opportunities, NotExpired(opportunities, now))
              /\ \A j \in 1..Len(opportunities) :
                     (\E k \in 1..Len(data) : data[k] = opportunities[j])
                         <=> now < opportunities[j].timestamp
                                     + opportunities[j].ttl_seconds * TicksPerSecond
      ]_vars

\* C11 witness: a response made now that returns a younger entry and leaves
\* out one whose age is exactly its time to live
C11_Witness ==
    /\ pulled.opportunities /= <<>>
    /\ pulled.opportunities[1].at = now
    /\ pulled.opportunities[1].data /= <<>>
    /\ Len(pulled.opportunities[1].data) < Len(opportunities)
    /\ \E j \in 1..Len(opportunities) :
           now - opportunities[j].timestamp = opportunities[j].ttl_seconds * TicksPerSecond


\* C12: an exception raised inside a cycle does not end the loop.  The step
\* that catches it leaves running as it is and starts the recovery delay; the
\* thread leaves the delay only for the loop test, and not before the delay
\* is over; the thread ends only at a loop test that finds running false; and
\* as long as no stop is requested, the aborted cycle is followed by the next.
C12_ExceptionNeverEndsLoop ==
    /\ [][\A l \in Loops :
             /\ (loop'[l].pc = "recover" /\ loop[l].pc /= "recover") =>
                    /\ running' = running
                    /\ loop'[l].wake_at = now + RecoverySleep * TicksPerSecond
             /\ (loop[l].pc = "recover" /\ loop'[l] /= loop[l]) =>
                    /\ loop'[l].pc = "while"
                    /\ now >= loop[l].wake_at
             /\ (loop'[l].pc = "done" /\ loop[l].pc /= "done") =>
                    (loop[l].pc = "while" /\ ~running)
        ]_vars
    /\ \A i \in 1..(MaxRecoverCycles - 1) :
           (loop[1].pc = "recover" /\ loop[1].iteration = i /\ ~stop_requested)
               ~> (stop_requested \/ (InCycle(1) /\ loop[1].iteration = i + 1))

\* C12 witness: a second cycle is under way although nothing was ever
\* recorded, that is, after the first cycle was aborted (a cycle that is not
\* aborted records opportunities in SpecRecover), and nobody asked to stop
C12_Witness ==
    /\ InCycle(1)
    /\ loop[1].iteration >= 2
    /\ recorded = <<>>
    /\ running
    /\ ~stop_requested

\* C13 as claimed: a quote request that fails for one pair (no response, a
\* response without outAmount, a malformed body) counts as 'no quote' for
\* that pair only: the cycle is never aborted, and once it is over (asleep
\* or in the recovery delay) the opportunities it derived from the other
\* pairs are the last ones recorded and have been published.
C13_FailedFetchIsNoQuote ==
    \A l \in Loops :
        loop[l].pc \in {"sleep", "recover"} =>
            LET batch == loop[l].new_opportunities
                n     == Len(batch)
            IN  /\ loop[l].pc = "sleep"
                /\ n <= Len(recorded)
                /\ SubSeq(recorded, Len(recorded) - n + 1, Len(recorded)) = batch
                /\ \A j \in 1..n :
                       \E k \in 1..Len(loop[l].sent) :
                           loop[l].sent[k] = Message("new_opportunity", batch[j])

\* C14 as claimed: no partial write is ever visible, whether the cycle runs
\* to its end, is aborted by an exception or the loop is being stopped:
\* the history never holds more than 50 entries, it never holds a batch that
\* stats.total_opportunities does not count yet, and a cycle that was
\* aborted leaves the connection status as it was before the cycle or
\* completely updated (lines 280-292 all done), never in between.
C14_NoPartialWriteVisible ==
    /\ Len(opportunities) <= HistoryWindow
    /\ stats.total_opportunities = Len(recorded)
    /\ \A l \in Loops :
           loop[l].pc = "recover" =>
               \/ connection_status = loop[l].before[1]
               \/ /\ connection_status.websocket
                  /\ connection_status.last_update = loop[l].current_time

\* C15 as claimed: a cycle of the console program prints the inline summary
\* exactly once when it takes opportunities_found to or past a multiple of
\* 20, and prints none when it does not.
C15_SummaryEveryTwentieth ==
    [][detector.pc = "fetch_raydium" /\ detector'.pc = "sleep" =>
          Len(detector'.printed) - Len(detector.printed) =
              IF detector'.opportunities_found \div SummaryEvery
                     > detector.opportunities_found \div SummaryEvery
              THEN 1 ELSE 0
      ]_vars

\* C16: in the console program, once initialize has opened the session,
\* run never ends with the session open: however the loop is left (Ctrl+C
\* seen as KeyboardInterrupt, cancellation, or running found False) the
\* finally clause closes the session before run is over, the session is
\* closed nowhere else, and no request is made on a closed session.
C16_SessionClosedOnExit ==
    /\ detector.pc = "done" /\ detector.session /= "none" => detector.session = "closed"
    /\ detector.session = "closed" => detector.pc = "done"
    /\ detector.closed_fetches = 0

\* C16 witness: run is over after at least two cycles of detection, left
\* through Ctrl+C, and the session is closed
C16_Witness ==
    /\ detector.pc = "done"
    /\ detector.session = "closed"
    /\ detector.cycles >= 2
    /\ ~detector.running

\* C17: once a cycle's update_stats has run, stats.total_opportunities is the
\* number of opportunities in all the batches recorded so far, those that
\* the truncation has since discarded included, and so at least the length
\* of the history.
C17_TotalCountsEveryBatch ==
    StatsSettled =>
        /\ stats.total_opportunities = Len(recorded)
        /\ stats.total_opportunities >= Len(opportunities)

\* C17 witness: update_stats has just counted a batch, and the history, full,
\* holds fewer opportunities than were recorded
C17_Witness ==
    /\ loop[1].pc = "emit_opportunities"
    /\ loop[1].new_opportunities /= <<>>
    /\ Len(opportunities) = HistoryWindow
    /\ Len(recorded) > HistoryWindow
    /\ stats.total_opportunities > Len(opportunities)

\* the mean that C18 speaks of: the sum of the profit percentages of the
\* entries, divided by their number
MeanProfit(entries) ==
    LET total == FSum(entries, 1, Len(entries), FZero)
        count == FFromBig(Big(Len(entries)))
    IN  Then(<<total, count>>, FDiv(total, count))

ReferencePrice == [q \in GoodQuotes |-> FDivBig(q.outAmount, q.inAmount)]

CandidatePrice ==
    [q \in GoodQuotes |->
        [i \in 1..Len(price_variations) |->
            FMul(FDivBig(q.outAmount, q.inAmount), price_variations[i])]]

\* the quote that the opportunity opp of the batch of thread l came from
QuoteOf(l, opp) ==
    loop[l].quotes[CHOOSE k \in 1..Len(trading_pairs) :
                       trading_pairs[k].pair_name = opp.pair]

\* C19: every opportunity of a batch has a sell price strictly above its buy
\* price; one side is labelled Jupiter and carries the reference price of
\* its quote, the other carries a multiplier's label and that multiplier's
\* candidate price; the profit amount is not negative.
C19_SellAboveBuy ==
    \A l \in Loops : \A j \in 1..Len(loop[l].new_opportunities) :
        LET opp == loop[l].new_opportunities[j]
            q   == QuoteOf(l, opp)
        IN  /\ FGt(opp.sell_price, opp.buy_price)
            /\ \E i \in 1..Len(price_variations) :
                   \/ /\ opp.buy_dex = "Jupiter"
                      /\ opp.buy_price = ReferencePrice[q]
                      /\ opp.sell_dex = dex_names[i]
                      /\ opp.sell_price = CandidatePrice[q][i]
                   \/ /\ opp.sell_dex = "Jupiter"
                      /\ opp.sell_price = ReferencePrice[q]
                      /\ opp.buy_dex = dex_names[i]
                      /\ opp.buy_price = CandidatePrice[q][i]
            /\ ~opp.profit_amount.neg

\* C19 witness: a batch with an opportunity that buys on Jupiter, one that
\* sells on Jupiter, one whose profit amount is positive and one whose profit
\* amount is 0
C19_Witness ==
    /\ loop[1].pc = "extend"
    /\ \E j \in 1..Len(loop[1].new_opportunities) :
           /\ loop[1].new_opportunities[j].buy_dex = "Jupiter"
           /\ loop[1].new_opportunities[j].profit_amount.digits /= <<>>
    /\ \E j \in 1..Len(loop[1].new_opportunities) :
           /\ loop[1].new_opportunities[j].sell_dex = "Jupiter"
           /\ loop[1].new_opportunities[j].profit_amount.digits = <<>>

\* The place of an opportunity in the iteration of lines 228 and 240: the
\* pairs in the order of trading_pairs, and for each pair the multipliers in
\* the order of their list
Rank(opp) ==
    LET k == CHOOSE k \in 1..Len(trading_pairs) : trading_pairs[k].pair_name = opp.pair
        i == CHOOSE i \in 1..Len(dex_names) : dex_names[i] \in {opp.buy_dex, opp.sell_dex}
    IN  (k - 1) * Len(dex_names) + i

\* C20: the batch of a detection pass is in the order of the pairs and, for
\* one pair, of the multipliers; once recorded it is the end of the history
\* in that order, and the new_opportunity messages of the cycle carry it in
\* that order.
C20_BatchOrder ==
    \A l \in Loops :
        LET batch == loop[l].new_opportunities
            n     == Len(batch)
        IN  /\ \A a \in 1..n : \A b \in 1..n :
                   a < b => Rank(batch[a]) < Rank(batch[b])
            /\ loop[l].pc \in {"truncate", "update_stats", "emit_opportunities",
                               "emit_status", "emit_stats", "sleep"} =>
                   /\ Last(opportunities, n) = batch
                   /\ Last(recorded, n) = batch
            /\ loop[l].pc \in {"emit_status", "emit_stats", "sleep"} =>
                   /\ Cardinality(SentOfKind(l, "new_opportunity")) = n
                   /\ \A j \in 1..n :
                          loop[l].sent[j] = Message("new_opportunity", batch[j])

\* C20 witness: a cycle has recorded and emitted a batch with several
\* opportunities of each pair, into a history that has overflowed
C20_Witness ==
    /\ loop[1].pc = "sleep"
    /\ Len(recorded) > HistoryWindow
    /\ \A k \in 1..Len(trading_pairs) : Cardinality(EntriesOfPair(1, k)) >= 2
    /\ Cardinality(SentOfKind(1, "new_opportunity")) = Len(loop[1].new_opportunities)

\* C21 as claimed: when update_connection_status is over (the detection pass
\* has begun), the status holds what this cycle's probes returned and
\* nothing of an earlier cycle: last_slot is the slot this cycle's
\* get_current_slot returned, and websocket is set.
C21_StatusOverwrittenWholesale ==
    \A l \in Loops :
        loop[l].pc = "detect" =>
            /\ connection_status.last_slot = loop[l].slot
            /\ connection_status.websocket

\* C22: a cycle whose detection pass returned an empty batch leaves the
\* history and the total, the average, the best profit, the top pair and the
\* time of the last opportunity of the stats as they were when it began,
\* through its record step, its update_stats and to its end.
C22_EmptyBatchChangesNothing ==
    \A l \in Loops :
        /\ loop[l].pc \in {"truncate", "update_stats", "emit_opportunities",
                           "emit_status", "emit_stats", "sleep"}
        /\ loop[l].new_opportunities = <<>>
        => /\ opportunities = loop[l].before[3]
           /\ stats.total_opportunities = loop[l].before[2].total_opportunities
           /\ stats.avg_profit_percentage = loop[l].before[2].avg_profit_percentage
           /\ stats.best_profit = loop[l].before[2].best_profit
           /\ stats.top_pair = loop[l].before[2].top_pair
           /\ stats.last_opportunity_time = loop[l].before[2].last_opportunity_time

\* C22 witness: a cycle with an empty batch is over, the history was full
\* when it began, and its update_stats changed the uptime and the rate
C22_Witness ==
    /\ loop[1].pc = "sleep"
    /\ loop[1].new_opportunities = <<>>
    /\ Len(loop[1].before[3]) = HistoryWindow
    /\ stats.uptime_seconds /= loop[1].before[2].uptime_seconds
    /\ stats.opportunities_per_minute /= loop[1].before[2].opportunities_per_minute

\* the opportunities that the connected client received as new_opportunity
\* broadcasts
PushedOpportunities ==
    LET news == SelectSeq(subscriber.pushed, LAMBDA msg : msg.event = "new_opportunity")
    IN  [j \in 1..Len(news) |-> news[j].data]

\* how many times opp occurs in the sequence opps
Occurrences(opp, opps) == Cardinality({ j \in 1..Len(opps) : opps[j] = opp })

\* C23 as claimed: once handle_connect has sent its snapshot and the loop is
\* between two cycles, every opportunity recorded so far that had not expired
\* when the snapshot was made has reached the client exactly once, in the
\* snapshot or as a new_opportunity message.
C23_EachOpportunityOnce ==
    subscriber.pc = "done" /\ loop[1].pc = "sleep" =>
        \A j \in 1..Len(recorded) :
            is_valid(recorded[j], subscriber.current_time) =>
                Occurrences(recorded[j], subscriber.inbox[3].data)
                    + Occurrences(recorded[j], PushedOpportunities) = 1

\* C24: with one loop running, no two entries of the history have the same
\* id, whether they come from one cycle or from two.
C24_IdsDistinct ==
    \A a \in 1..Len(opportunities) : \A b \in 1..Len(opportunities) :
        a /= b => opportunities[a].id /= opportunities[b].id

\* C24 witness: the history holds two opportunities of one cycle, and two
\* opportunities for the same pair and sides found by two cycles, the
\* earlier at a time that is not a whole second
C24_Witness ==
    /\ \E a \in 1..Len(opportunities) : \E b \in 1..Len(opportunities) :
           /\ a /= b
           /\ opportunities[a].timestamp = opportunities[b].timestamp
    /\ \E a \in 1..Len(opportunities) : \E b \in 1..Len(opportunities) :
           /\ opportunities[a].pair = opportunities[b].pair
           /\ opportunities[a].buy_dex = opportunities[b].buy_dex
           /\ opportunities[a].sell_dex = opportunities[b].sell_dex
           /\ opportunities[a].timestamp < opportunities[b].timestamp
           /\ opportunities[a].timestamp % TicksPerSecond /= 0
           /\ opportunities[b].id[4] - opportunities[a].id[4] < CycleSleep + 1

\* the recorded opportunities that have not expired at time t
StillValid(t) == { j \in 1..Len(recorded) : is_valid(recorded[j], t) }

\* C25: with one loop running, at every moment the opportunities ever
\* recorded that have not expired number at most 50 and are all in the
\* history, so that none was evicted while valid and get_opportunities
\* returns every one of them.
C25_NoValidOpportunityEvicted ==
    /\ Cardinality(StillValid(now)) <= HistoryWindow
    /\ \A j \in StillValid(now) :
           \E k \in 1..Len(opportunities) : opportunities[k] = recorded[j]
    /\ Len(valid_opportunities(opportunities, now)) = Cardinality(StillValid(now))

\* C25 witness: the truncation has evicted opportunities, all expired, and
\* the history holds expired and valid opportunities
C25_Witness ==
    /\ loop[1].pc = "update_stats"
    /\ Len(recorded) > Len(opportunities)
    /\ Len(opportunities) = HistoryWindow
    /\ ~is_valid(opportunities[1], now)
    /\ Cardinality(StillValid(now)) >= 4 * 6

====
